---- MODULE Spec2Model ----
(***************************************************************************)
(* Model of the text-to-speech dispatch core: the KeyManager credential    *)
(* pool (key_manager.py) and the /speak, /add_key and /delete_key handlers *)
(* with the per-chunk fetch protocol fetch_chunk_audio (app.py).           *)
(*                                                                         *)
(* Strings are sequences of one-character strings.  Worker threads, the    *)
(* request thread and the administrative thread interleave at the points   *)
(* where the interpreter can switch threads: a remote call, a sleep, the   *)
(* iterations of the loop of deactivate_key, and between its match test    *)
(* and its pop.                                                            *)
(***************************************************************************)
EXTENDS Integers, Sequences, FiniteSets, TLC

\* ---------------------------------------------------------------- bounds
\* Largest number of entries the pool is allowed to grow to in the model.
MaxKeys == 2
\* Longest request text (before trimming) submitted to /speak.
MaxText == 3
\* Largest pool at start-up of the specification of one protocol on its own.
MaxSoloKeys == 3
\* Longest payload and largest chunk size drawn for the split function.
MaxSplitLen == 5
MaxSplitSize == 3
\* Largest pool in the specification of the KeyManager operations on their
\* own.
MaxPoolKeys == 3
\* Most chunks of the job that puts the worker pool of the executor to its
\* limit.
MaxWideChunks == 6
\* The value of MAX_CHARS the requests are split with: app.py:17 sets 2000,
\* scaled down here so that a short text already splits into several chunks.
ChunkSize == 2

\* ------------------------------------------------------ program constants
MAX_WORKERS == 5
LIMIT == 50000
ATTEMPTS == 3
KEY_UPLOAD_PASSWORD == "4444"
\* Most chunks a request text can split into.
MaxChunks == (MaxText + ChunkSize - 1) \div ChunkSize

\* -------------------------------------------------------------- alphabets
WS == {" "}
Idents == {<<"a">>, <<"b">>}
\* Values a client may send as "key": blank, padded and plain identities.
RawKeys == {<<>>, <<" ">>, <<"a">>, <<" ", "a">>, <<"b">>, <<"b", " ">>}
Passwords == {"4444", "bad"}
\* Classes of answer of one requests.post and of what follows it in the try
\* block: 402, 503, "error" for anything that raises there (a timeout, a
\* status raise_for_status rejects, a body without audio_data, audio that
\* does not decode), and a usable body.
Responses == {"402", "503", "error", "ok"}
NoError == "None"

VARIABLES
  keys,        \* key_manager.keys: sequence of [key, used]
  max_chars,   \* the module global MAX_CHARS
  mpc,         \* position of the /speak thread
  text,        \* trimmed request text
  parts,       \* the chunks of text
  nextRes,     \* index of the next future whose result the map iterator awaits
  results,     \* results collected so far, in the order they were collected
  response,    \* what /speak returned: [status, message, audio]
  exc,         \* the exception the map iterator raised, if any
  wpc,         \* per chunk: position of its fetch_chunk_audio call
  snap,        \* per chunk: list(key_manager.keys) taken at line 41
  ki,          \* per chunk: index into snap of the entry being tried
  attempt,     \* per chunk: the attempt counter of range(3)
  last_error,  \* per chunk: last_error
  di,          \* per chunk: index i of the enumerate loop in deactivate_key
  wres,        \* per chunk: returned audio, or the raised message
  completed,   \* the chunks whose protocol has ended, in the order they ended
  obs,         \* the chunk whose remote calls are logged (0: none)
  ncalls,      \* chunk obs: number of requests.post calls made
  elog,        \* chunk obs: [resp, wait] of each call on the current entry
  lastFail,    \* chunk obs: class of its last remote call that did not succeed
  all402,      \* chunk obs: every remote call so far answered 402
  call         \* the last KeyManager method called directly: [op, arg, ret]

vars == <<keys, max_chars, mpc, text, parts, nextRes, results, response,
          exc, wpc, snap, ki, attempt, last_error, di, wres, completed, obs, ncalls, elog,
          lastFail, all402, call>>
poolVars == <<keys>>
\* What no handler of app.py writes.
confVars == <<max_chars, call>>
jobVars == <<mpc, text, parts, nextRes, results, response, exc>>
logVars == <<obs, ncalls, elog, lastFail, all402>>
workerVars == <<wpc, snap, ki, attempt, last_error, di, wres, completed,
                logVars>>

\* ------------------------------------------------------------ sequences
Min(a, b) == IF a <= b THEN a ELSE b

RemoveAt(s, i) == SubSeq(s, 1, i - 1) \o SubSeq(s, i + 1, Len(s))

RECURSIVE SeqsUpTo(_, _)
SeqsUpTo(S, n) ==
  IF n = 0 THEN {<<>>}
  ELSE LET shorter == SeqsUpTo(S, n - 1)
       IN shorter \cup {Append(s, x) : s \in shorter, x \in S}

\* A strip that leaves its argument as it is.
StripNone(s) == s

\* str.strip(): drop leading and trailing whitespace.
RECURSIVE LStrip(_)
LStrip(s) == IF s # <<>> /\ Head(s) \in WS THEN LStrip(Tail(s)) ELSE s

RECURSIVE RStrip(_)
RStrip(s) ==
  IF s # <<>> /\ s[Len(s)] \in WS THEN RStrip(SubSeq(s, 1, Len(s) - 1)) ELSE s

Strip(s) == RStrip(LStrip(s))

\* ------------------------------------------------------------ KeyManager
\* The entry load_keys and add_key create for a value.
NewEntry(k) == [key |-> Strip(k), used |-> 0]

\* load_keys: keep the non-blank values, trimmed, with usage 0.
RECURSIVE load_keys(_)
load_keys(ks) ==
  IF ks = <<>> THEN <<>>
  ELSE IF Head(ks) # <<>> /\ Strip(Head(ks)) # <<>>
       THEN <<NewEntry(Head(ks))>> \o load_keys(Tail(ks))
       ELSE load_keys(Tail(ks))

\* add_key: append when the value is non-blank.
add_key(pool, k) ==
  IF k # <<>> /\ Strip(k) # <<>> THEN Append(pool, NewEntry(k)) ELSE pool

\* active_keys_left with all() in place of any().
active_keys_left_all(pool) == \A i \in 1..Len(pool) : pool[i].used < LIMIT

\* get_available_key with the test of line 25 left out: the first entry is
\* taken whatever it has used.
get_available_key_unchecked(pool, n) ==
  IF pool = <<>> THEN [ret |-> <<>>, pool |-> pool]
  ELSE [ret |-> <<pool[1].key>>, pool |-> [pool EXCEPT ![1].used = @ + n]]

\* get_available_key, lines 24-28, from entry i on: the first entry with
\* used + chars_needed <= limit gets chars_needed added and its key is
\* returned; None when the loop ends.
RECURSIVE GetFrom(_, _, _)
GetFrom(pool, i, n) ==
  IF i > Len(pool) THEN [ret |-> <<>>, pool |-> pool]
  ELSE IF pool[i].used + n <= LIMIT
       THEN [ret |-> <<pool[i].key>>, pool |-> [pool EXCEPT ![i].used = @ + n]]
       ELSE GetFrom(pool, i + 1, n)

get_available_key(pool, n) == GetFrom(pool, 1, n)

\* deactivate_key, lines 32-37, run by a single caller from entry i on: the
\* first entry with the key is popped and returned; None when the loop ends.
RECURSIVE DeactFrom(_, _, _)
DeactFrom(pool, i, k) ==
  IF i > Len(pool) THEN [ret |-> <<>>, pool |-> pool]
  ELSE IF pool[i].key = k
       THEN [ret |-> <<pool[i]>>, pool |-> RemoveAt(pool, i)]
       ELSE DeactFrom(pool, i + 1, k)

\* deactivate_key with the scan started at the far end: the last entry with
\* the key is popped.
RECURSIVE DeactBack(_, _, _)
DeactBack(pool, i, k) ==
  IF i < 1 THEN [ret |-> <<>>, pool |-> pool]
  ELSE IF pool[i].key = k
       THEN [ret |-> <<pool[i]>>, pool |-> RemoveAt(pool, i)]
       ELSE DeactBack(pool, i - 1, k)

deactivate_key_last(pool, k) == DeactBack(pool, Len(pool), k)

deactivate_key(pool, k) == DeactFrom(pool, 1, k)

\* delete_first_key, lines 41-45.
delete_first_key(pool) ==
  IF pool # <<>> THEN [ret |-> <<pool[1]>>, pool |-> Tail(pool)]
  ELSE [ret |-> <<>>, pool |-> pool]

active_keys_left(pool) == \E i \in 1..Len(pool) : pool[i].used < LIMIT

count(pool) == Len(pool)

KeyIds(pool) == {pool[i].key : i \in 1..Len(pool)}

\* ------------------------------------------------------------- splitting
\* A range that stops before a last step shorter than the others.
RECURSIVE RangeFromWhole(_, _, _)
RangeFromWhole(i, n, step) ==
  IF i + step > n THEN <<>> ELSE <<i>> \o RangeFromWhole(i + step, n, step)

\* range(0, n, step) of line 106.
RECURSIVE RangeFrom(_, _, _)
RangeFrom(i, n, step) ==
  IF i >= n THEN <<>> ELSE <<i>> \o RangeFrom(i + step, n, step)

\* The slice s[a:b] for 0 <= a <= b: the end is clamped to len(s).
Slice(s, a, b) == SubSeq(s, a + 1, Min(b, Len(s)))

\* parts = [text[i:i+MAX_CHARS] for i in range(0, len(text), MAX_CHARS)]
Split(t, size) ==
  LET starts == RangeFrom(0, Len(t), size)
  IN [j \in 1..Len(starts) |-> Slice(t, starts[j], starts[j] + size)]

\* ------------------------------------------------------------- audio
\* The audio the remote service returns for a chunk, decoded: one sample
\* per character of the chunk.
Synth(chunk) == [i \in 1..Len(chunk) |-> <<"pcm", chunk[i]>>]

\* final_audio = silent(0); for r in results: final_audio += r
RECURSIVE Merge(_)
Merge(rs) == IF rs = <<>> THEN <<>> ELSE Head(rs) \o Merge(Tail(rs))

\* ------------------------------------------------------------- requests
Body(n) == SubSeq(<<"p", "q", "r", "s", "t", "u", "v", "w">>, 1, n)
Pads == {<<>>, <<" ">>}
RawTexts == {l \o Body(n) \o r : l \in Pads, r \in Pads, n \in 0..MaxText}
\* Values of the API_KEY_i environment variables at start-up.
EnvVals == {<<" ">>, <<"a">>, <<"b", " ">>, <<"\"", "b", "\"">>}

\* k.strip('"') of line 29.
RECURSIVE LStripQ(_)
LStripQ(s) == IF s # <<>> /\ Head(s) = "\"" THEN LStripQ(Tail(s)) ELSE s

RECURSIVE RStripQ(_)
RStripQ(s) ==
  IF s # <<>> /\ s[Len(s)] = "\"" THEN RStripQ(SubSeq(s, 1, Len(s) - 1)) ELSE s

\* Lines 25-33: collect the set variables, then load them.
StartupKeys(env) ==
  LET api_keys == [i \in 1..Len(env) |-> RStripQ(LStripQ(env[i]))]
  IN IF api_keys # <<>> THEN load_keys(api_keys) ELSE <<>>

Chunks == 1..Len(parts)
\* A message: its fixed text, and the chunk number and last error that the
\* message of line 83 carries (0 and "" in the other messages).
Msg(t, c, e) == [text |-> t, chunk |-> c, last |-> e]
NoMsg == Msg("", 0, "")
\* What /speak answers: the status, the error message or the audio.
Answer(st, m, a) == [status |-> st, message |-> m, audio |-> a]
NoJob == Answer(0, NoMsg, <<>>)

\* A call of a KeyManager method: its name, its argument and what it
\* returned, as a sequence that is empty for None.
Call(op, arg, ret) == [op |-> op, arg |-> arg, ret |-> ret]
NoCall == Call("none", <<>>, <<>>)

\* Lines 24-35: the pool after start-up.
InitPool == \E env \in SeqsUpTo(EnvVals, MaxKeys) : keys = StartupKeys(env)

Init ==
  /\ InitPool
  /\ max_chars = ChunkSize
  /\ mpc = "idle"
  /\ text = <<>>
  /\ parts = <<>>
  /\ nextRes = 1
  /\ results = <<>>
  /\ response = NoJob
  /\ exc = NoMsg
  /\ wpc = <<>>
  /\ snap = <<>>
  /\ ki = <<>>
  /\ attempt = <<>>
  /\ last_error = <<>>
  /\ di = <<>>
  /\ wres = <<>>
  /\ completed = <<>>
  /\ obs = 0
  /\ ncalls = 0
  /\ elog = <<>>
  /\ lastFail = NoError
  /\ all402 = TRUE
  /\ call = NoCall

\* ------------------------------------------------------------- /speak
\* Lines 94-106 and the submission of every chunk by executor.map.  The
\* calls of chunk o of the job are logged (o = 0: of none).
Speak(raw, o) ==
  /\ mpc \in {"idle", "responded"}
  /\ LET t == Strip(raw)
         ps == IF active_keys_left(keys) /\ t # <<>>
               THEN Split(t, max_chars) ELSE <<>>
         n == Len(ps)
     IN /\ text' = t
        /\ parts' = ps
        /\ IF ~active_keys_left(keys)
           THEN /\ response' = Answer(403, Msg("No valid keys", 0, ""), <<>>)
                /\ mpc' = "responded"
           ELSE IF t = <<>>
           THEN /\ response' = Answer(400, Msg("No text", 0, ""), <<>>)
                /\ mpc' = "responded"
           ELSE /\ response' = NoJob
                /\ mpc' = "map"
        /\ nextRes' = 1
        /\ results' = <<>>
        /\ exc' = NoMsg
        /\ wpc' = [c \in 1..n |-> "queued"]
        /\ snap' = [c \in 1..n |-> <<>>]
        /\ ki' = [c \in 1..n |-> 0]
        /\ attempt' = [c \in 1..n |-> 0]
        /\ last_error' = [c \in 1..n |-> NoError]
        /\ di' = [c \in 1..n |-> 0]
        /\ wres' = [c \in 1..n |-> <<>>]
        /\ completed' = <<>>
        /\ obs' = o
        /\ ncalls' = 0
        /\ elog' = <<>>
        /\ lastFail' = NoError
        /\ all402' = TRUE
  /\ UNCHANGED <<poolVars, confVars>>

\* ------------------------------------------------- fetch_chunk_audio
Running == {"call", "deact", "pop", "skip"}
Finished == {"done", "failed", "cancelled"}

\* str(e) of the exception an answer of class "error" raises in the try block.
ErrMsg(r) == "No audio_data returned"

\* Line 83: the message of the exception that fails the chunk.
FailMsg(c, e) ==
  Msg("All keys failed for chunk", c,
      IF e = NoError THEN "No API responded" ELSE e)

\* A backoff that waits the same second after every 503.
BackoffWaitFixed(a) == 1000

\* Sleeps, in milliseconds: 2 ** attempt seconds (line 60), SLEEP_PER_CHUNK
\* (line 71) and the pause of the except branch (line 79).
BackoffWait(a) == (2 ^ a) * 1000
SLEEP_PER_CHUNK == 300
ErrorPause == 1000

\* NextAttempt with a range of one attempt more.
NextAttemptExtra(c) ==
  IF attempt[c] + 1 < ATTEMPTS + 1
  THEN /\ attempt' = [attempt EXCEPT ![c] = @ + 1]
       /\ wpc' = [wpc EXCEPT ![c] = "call"]
  ELSE /\ attempt' = attempt
       /\ wpc' = [wpc EXCEPT ![c] = "skip"]

\* End of one pass of "for attempt in range(3)" that neither broke nor
\* returned: the next attempt, or line 81 when the range is used up.
NextAttempt(c) ==
  IF attempt[c] + 1 < ATTEMPTS
  THEN /\ attempt' = [attempt EXCEPT ![c] = @ + 1]
       /\ wpc' = [wpc EXCEPT ![c] = "call"]
  ELSE /\ attempt' = attempt
       /\ wpc' = [wpc EXCEPT ![c] = "skip"]

\* The log of the observed chunk: one more call, answered r and followed by
\* a sleep of w milliseconds.
Log(c, r, w) ==
  IF c = obs
  THEN /\ ncalls' = ncalls + 1
       /\ elog' = Append(elog, [resp |-> r, wait |-> w])
       /\ lastFail' = IF r = "ok" THEN lastFail ELSE r
       /\ all402' = (all402 /\ r = "402")
  ELSE UNCHANGED <<ncalls, elog, lastFail, all402>>

\* Start with the loops entered whatever the snapshot holds.
StartAnySnapshot(c) ==
  /\ mpc \in {"map", "shutdown"}
  /\ c \in Chunks
  /\ wpc[c] = "queued"
  /\ \A d \in 1..(c - 1) : wpc[d] # "queued"
  /\ Cardinality({d \in Chunks : wpc[d] \in Running}) < MAX_WORKERS
  /\ snap' = [snap EXCEPT ![c] = [i \in 1..Len(keys) |-> keys[i].key]]
  /\ wpc' = [wpc EXCEPT ![c] = "call"]
  /\ ki' = [ki EXCEPT ![c] = 1]
  /\ UNCHANGED <<wres, completed, attempt, last_error, di, logVars>>
  /\ UNCHANGED <<poolVars, jobVars, confVars>>

\* Start with no limit on the number of worker threads.
StartUnbounded(c) ==
  /\ mpc \in {"map", "shutdown"}
  /\ c \in Chunks
  /\ wpc[c] = "queued"
  /\ \A d \in 1..(c - 1) : wpc[d] # "queued"
  /\ snap' = [snap EXCEPT ![c] = [i \in 1..Len(keys) |-> keys[i].key]]
  /\ IF keys = <<>>
     THEN /\ wpc' = [wpc EXCEPT ![c] = "failed"]
          /\ wres' = [wres EXCEPT ![c] = FailMsg(c, NoError)]
          /\ completed' = Append(completed, c)
          /\ ki' = ki
     ELSE /\ wpc' = [wpc EXCEPT ![c] = "call"]
          /\ wres' = wres
          /\ completed' = completed
          /\ ki' = [ki EXCEPT ![c] = 1]
  /\ UNCHANGED <<attempt, last_error, di, logVars>>
  /\ UNCHANGED <<poolVars, jobVars, confVars>>

\* A worker thread of the executor takes the oldest queued chunk and runs
\* lines 40-44 for it: snapshot the pool, enter the loops, or raise at
\* line 83 when the snapshot is empty.
Start(c) ==
  /\ mpc \in {"map", "shutdown"}
  /\ c \in Chunks
  /\ wpc[c] = "queued"
  /\ \A d \in 1..(c - 1) : wpc[d] # "queued"
  /\ Cardinality({d \in Chunks : wpc[d] \in Running}) < MAX_WORKERS
  /\ snap' = [snap EXCEPT ![c] = [i \in 1..Len(keys) |-> keys[i].key]]
  /\ IF keys = <<>>
     THEN /\ wpc' = [wpc EXCEPT ![c] = "failed"]
          /\ wres' = [wres EXCEPT ![c] = FailMsg(c, NoError)]
          /\ completed' = Append(completed, c)
          /\ ki' = ki
     ELSE /\ wpc' = [wpc EXCEPT ![c] = "call"]
          /\ wres' = wres
          /\ completed' = completed
          /\ ki' = [ki EXCEPT ![c] = 1]
  /\ UNCHANGED <<attempt, last_error, di, logVars>>
  /\ UNCHANGED <<poolVars, jobVars, confVars>>

\* Lines 46-79: one requests.post with the key of the current snapshot
\* entry, answered by r, and the handling of the answer up to the next
\* point where the thread blocks or touches the pool.
Post(c, r) ==
  /\ c \in Chunks
  /\ wpc[c] = "call"
  /\ CASE r = "402" ->
            /\ wpc' = [wpc EXCEPT ![c] = "deact"]
            /\ Log(c, r, 0)
            /\ UNCHANGED <<attempt, last_error, wres, completed>>
       [] r = "503" ->
            /\ Log(c, r, BackoffWait(attempt[c]))
            /\ NextAttempt(c)
            /\ UNCHANGED <<last_error, wres, completed>>
       [] r = "error" ->
            /\ last_error' = [last_error EXCEPT ![c] = ErrMsg(r)]
            /\ Log(c, r, ErrorPause)
            /\ NextAttempt(c)
            /\ UNCHANGED <<wres, completed>>
       [] r = "ok" ->
            /\ wres' = [wres EXCEPT ![c] = Synth(parts[c])]
            /\ Log(c, r, SLEEP_PER_CHUNK)
            /\ wpc' = [wpc EXCEPT ![c] = "done"]
            /\ completed' = Append(completed, c)
            /\ UNCHANGED <<attempt, last_error>>
  /\ UNCHANGED <<snap, ki, di, obs>>
  /\ UNCHANGED <<poolVars, jobVars, confVars>>

\* deactivate_key, lines 32-33 and 37: the enumerate loop fetches entry i
\* of the live list and tests it; the loop ends with None when i is past
\* the end.
DeactScan(c) ==
  /\ c \in Chunks
  /\ wpc[c] = "deact"
  /\ IF di[c] >= Len(keys)
     THEN /\ wpc' = [wpc EXCEPT ![c] = "skip"]
          /\ di' = [di EXCEPT ![c] = 0]
     ELSE IF keys[di[c] + 1].key = snap[c][ki[c]]
     THEN /\ wpc' = [wpc EXCEPT ![c] = "pop"]
          /\ di' = di
     ELSE /\ wpc' = wpc
          /\ di' = [di EXCEPT ![c] = @ + 1]
  /\ UNCHANGED <<snap, ki, attempt, last_error, wres, completed, logVars>>
  /\ UNCHANGED <<poolVars, jobVars, confVars>>

\* str(e) of the IndexError of list.pop.
PopError(pool) ==
  IF pool = <<>> THEN "pop from empty list" ELSE "pop index out of range"

\* DeactPop with pop() in place of pop(i): the last entry is removed.
DeactPopLast(c) ==
  /\ c \in Chunks
  /\ wpc[c] = "pop"
  /\ IF di[c] < Len(keys)
     THEN /\ keys' = RemoveAt(keys, Len(keys))
          /\ wpc' = [wpc EXCEPT ![c] = "skip"]
          /\ UNCHANGED <<attempt, last_error, elog>>
     ELSE /\ keys' = keys
          /\ last_error' = [last_error EXCEPT ![c] = PopError(keys)]
          /\ elog' = IF c = obs
                     THEN [elog EXCEPT ![Len(elog)].wait = ErrorPause]
                     ELSE elog
          /\ NextAttempt(c)
  /\ di' = [di EXCEPT ![c] = 0]
  /\ UNCHANGED <<snap, ki, wres, completed, obs, ncalls, lastFail, all402>>
  /\ UNCHANGED <<jobVars, confVars>>

\* DeactPop with the entry flagged as used up in place of removed.
DeactPopFlag(c) ==
  /\ c \in Chunks
  /\ wpc[c] = "pop"
  /\ IF di[c] < Len(keys)
     THEN /\ keys' = [keys EXCEPT ![di[c] + 1].used = LIMIT]
          /\ wpc' = [wpc EXCEPT ![c] = "skip"]
          /\ UNCHANGED <<attempt, last_error, elog>>
     ELSE /\ keys' = keys
          /\ last_error' = [last_error EXCEPT ![c] = PopError(keys)]
          /\ elog' = IF c = obs
                     THEN [elog EXCEPT ![Len(elog)].wait = ErrorPause]
                     ELSE elog
          /\ NextAttempt(c)
  /\ di' = [di EXCEPT ![c] = 0]
  /\ UNCHANGED <<snap, ki, wres, completed, obs, ncalls, lastFail, all402>>
  /\ UNCHANGED <<jobVars, confVars>>

\* deactivate_key, line 34: self.keys.pop(i) on the list as it is now.  An
\* index past the end raises IndexError, which the except branch of line 76
\* catches.
DeactPop(c) ==
  /\ c \in Chunks
  /\ wpc[c] = "pop"
  /\ IF di[c] < Len(keys)
     THEN /\ keys' = RemoveAt(keys, di[c] + 1)
          /\ wpc' = [wpc EXCEPT ![c] = "skip"]
          /\ UNCHANGED <<attempt, last_error, elog>>
     ELSE /\ keys' = keys
          /\ last_error' = [last_error EXCEPT ![c] = PopError(keys)]
          /\ elog' = IF c = obs
                     THEN [elog EXCEPT ![Len(elog)].wait = ErrorPause]
                     ELSE elog
          /\ NextAttempt(c)
  /\ di' = [di EXCEPT ![c] = 0]
  /\ UNCHANGED <<snap, ki, wres, completed, obs, ncalls, lastFail, all402>>
  /\ UNCHANGED <<jobVars, confVars>>

\* Skip with the snapshot taken again from the live pool at every entry.
SkipResnapshot(c) ==
  /\ c \in Chunks
  /\ wpc[c] = "skip"
  /\ snap' = [snap EXCEPT ![c] = [i \in 1..Len(keys) |-> keys[i].key]]
  /\ IF ki[c] < Len(keys)
     THEN /\ ki' = [ki EXCEPT ![c] = @ + 1]
          /\ attempt' = [attempt EXCEPT ![c] = 0]
          /\ elog' = IF c = obs THEN <<>> ELSE elog
          /\ wpc' = [wpc EXCEPT ![c] = "call"]
          /\ UNCHANGED <<wres, completed>>
     ELSE /\ wpc' = [wpc EXCEPT ![c] = "failed"]
          /\ wres' = [wres EXCEPT ![c] = FailMsg(c, last_error[c])]
          /\ completed' = Append(completed, c)
          /\ UNCHANGED <<ki, attempt, elog>>
  /\ UNCHANGED <<last_error, di, obs, ncalls, lastFail, all402>>
  /\ UNCHANGED <<poolVars, jobVars, confVars>>

\* Line 81, then the next snapshot entry, or line 83 when there is none.
Skip(c) ==
  /\ c \in Chunks
  /\ wpc[c] = "skip"
  /\ IF ki[c] < Len(snap[c])
     THEN /\ ki' = [ki EXCEPT ![c] = @ + 1]
          /\ attempt' = [attempt EXCEPT ![c] = 0]
          /\ elog' = IF c = obs THEN <<>> ELSE elog
          /\ wpc' = [wpc EXCEPT ![c] = "call"]
          /\ UNCHANGED <<wres, completed>>
     ELSE /\ wpc' = [wpc EXCEPT ![c] = "failed"]
          /\ wres' = [wres EXCEPT ![c] = FailMsg(c, last_error[c])]
          /\ completed' = Append(completed, c)
          /\ UNCHANGED <<ki, attempt, elog>>
  /\ UNCHANGED <<snap, last_error, di, obs, ncalls, lastFail, all402>>
  /\ UNCHANGED <<poolVars, jobVars, confVars>>

\* ------------------------------------------------- /speak, continued
\* Collect with the failure of a chunk swallowed: the failed chunk counts as
\* collected and contributes no audio.
CollectSkipFailed ==
  /\ mpc = "map"
  /\ nextRes \in Chunks
  /\ wpc[nextRes] \in {"done", "failed"}
  /\ results' = IF wpc[nextRes] = "done"
                THEN Append(results, wres[nextRes]) ELSE results
  /\ nextRes' = nextRes + 1
  /\ UNCHANGED <<mpc, exc, wpc>>
  /\ UNCHANGED <<text, parts, response>>
  /\ UNCHANGED <<snap, ki, attempt, last_error, di, wres, completed, logVars>>
  /\ UNCHANGED <<poolVars, confVars>>

\* Collect with the failure raised as soon as any chunk has failed: the one
\* that failed first in time.
CollectEarliestFailure ==
  /\ mpc = "map"
  /\ nextRes \in Chunks
  /\ \/ wpc[nextRes] = "done"
     \/ \E c \in Chunks : wpc[c] = "failed"
  /\ IF \E c \in Chunks : wpc[c] = "failed"
     THEN /\ exc' = wres[CHOOSE c \in Chunks :
                           /\ wpc[c] = "failed"
                           /\ \A j \in 1..Len(completed) :
                                (wpc[completed[j]] = "failed" /\ completed[j] # c)
                                  => \E i \in 1..(j - 1) : completed[i] = c]
          /\ mpc' = "shutdown"
          /\ wpc' = [c \in Chunks |->
                       IF wpc[c] = "queued" THEN "cancelled" ELSE wpc[c]]
          /\ UNCHANGED <<results, nextRes>>
     ELSE /\ results' = Append(results, wres[nextRes])
          /\ nextRes' = nextRes + 1
          /\ UNCHANGED <<mpc, exc, wpc>>
  /\ UNCHANGED <<text, parts, response>>
  /\ UNCHANGED <<snap, ki, attempt, last_error, di, wres, completed, logVars>>
  /\ UNCHANGED <<poolVars, confVars>>

\* Lines 111-114: list() takes the next result of the map iterator, in
\* submission order.  A failed chunk re-raises there; the iterator then
\* cancels the futures that have not started.
Collect ==
  /\ mpc = "map"
  /\ nextRes \in Chunks
  /\ wpc[nextRes] \in {"done", "failed"}
  /\ IF wpc[nextRes] = "done"
     THEN /\ results' = Append(results, wres[nextRes])
          /\ nextRes' = nextRes + 1
          /\ UNCHANGED <<mpc, exc, wpc>>
     ELSE /\ exc' = wres[nextRes]
          /\ mpc' = "shutdown"
          /\ wpc' = [c \in Chunks |->
                       IF wpc[c] = "queued" THEN "cancelled" ELSE wpc[c]]
          /\ UNCHANGED <<results, nextRes>>
  /\ UNCHANGED <<text, parts, response>>
  /\ UNCHANGED <<snap, ki, attempt, last_error, di, wres, completed, logVars>>
  /\ UNCHANGED <<poolVars, confVars>>

\* Finish with the audio merged in the order the chunks completed.
FinishCompletionOrder ==
  /\ mpc = "map"
  /\ nextRes = Len(parts) + 1
  /\ LET buf == Merge([j \in 1..Len(completed) |-> wres[completed[j]]])
     IN response' = IF Len(buf) = 0
                    THEN Answer(500, Msg("Empty MP3", 0, ""), <<>>)
                    ELSE Answer(200, NoMsg, buf)
  /\ mpc' = "responded"
  /\ UNCHANGED <<text, parts, nextRes, results, exc>>
  /\ UNCHANGED <<workerVars, poolVars, confVars>>

\* The exported buffer (lines 121-128), as the merged samples.
Export(audio) == audio

\* Lines 115-135 once every result is in: merge, export, answer.
Finish ==
  /\ mpc = "map"
  /\ nextRes = Len(parts) + 1
  /\ LET buf == Export(Merge(results))
     IN response' = IF Len(buf) = 0
                    THEN Answer(500, Msg("Empty MP3", 0, ""), <<>>)
                    ELSE Answer(200, NoMsg, buf)
  /\ mpc' = "responded"
  /\ UNCHANGED <<text, parts, nextRes, results, exc>>
  /\ UNCHANGED <<workerVars, poolVars, confVars>>

\* Lines 110 and 117-118: leaving the with block waits for the running
\* workers; the except branch then answers 500 with str(e).
Shutdown ==
  /\ mpc = "shutdown"
  /\ \A c \in Chunks : wpc[c] \in Finished
  /\ response' = Answer(500, exc, <<>>)
  /\ mpc' = "responded"
  /\ UNCHANGED <<text, parts, nextRes, results, exc>>
  /\ UNCHANGED <<workerVars, poolVars, confVars>>

\* ------------------------------------------------- administration
\* /add_key, lines 149-156.  The pool is not grown past MaxKeys.
AddKey(pw, raw) ==
  /\ pw = KEY_UPLOAD_PASSWORD
  /\ Strip(raw) # <<>>
  /\ Len(keys) < MaxKeys
  /\ keys' = add_key(keys, Strip(raw))
  /\ UNCHANGED <<jobVars, workerVars, confVars>>

\* /delete_key, lines 161-165, with delete_first_key: pop the head of a
\* non-empty pool.  The test of line 41 and the pop of line 42 are taken as
\* one step, at the moment of the pop: a pop(0) that finds the list emptied
\* since the test raises IndexError and changes nothing, which is this step
\* not being taken.
DeleteFirst(pw) ==
  /\ pw = KEY_UPLOAD_PASSWORD
  /\ keys # <<>>
  /\ keys' = Tail(keys)
  /\ UNCHANGED <<jobVars, workerVars, confVars>>

Worker(c) ==
  \/ Start(c)
  \/ \E r \in Responses : Post(c, r)
  \/ DeactScan(c)
  \/ DeactPop(c)
  \/ Skip(c)

Admin ==
  \/ \E pw \in Passwords, raw \in RawKeys : AddKey(pw, raw)
  \/ \E pw \in Passwords : DeleteFirst(pw)

\* One job at a time, of any number of chunks, with no administrative
\* request in flight: the workers of the job race with each other.
Next ==
  \/ \E raw \in RawTexts : Speak(raw, 0)
  \/ \E c \in 1..MaxChunks : Worker(c)
  \/ Collect
  \/ Finish
  \/ Shutdown

Spec == Init /\ [][Next]_vars

\* Requests of one character at most, hence of one chunk at most: one fetch
\* protocol at a time, with its calls logged, racing with the administrative
\* requests.  The protocol hands the chunk to the remote call and never
\* looks into it, so longer one-chunk texts add nothing.
ShortTexts == {t \in RawTexts : Len(Strip(t)) <= 1}

NextFetch ==
  \/ \E raw \in ShortTexts : Speak(raw, 1)
  \/ Worker(1)
  \/ Collect
  \/ Finish
  \/ Shutdown
  \/ Admin

SpecFetch == Init /\ [][NextFetch]_vars
\* The split of line 106 on its own, for any payload and any chunk size,
\* next to the requests that reach it through /speak.
Payloads == SeqsUpTo({"x", "y", " "}, MaxSplitLen)

InitSplit ==
  /\ InitPool
  /\ max_chars \in 1..MaxSplitSize
  /\ mpc = "idle"
  /\ text \in Payloads
  /\ parts = <<>>
  /\ nextRes = 1
  /\ results = <<>>
  /\ response = NoJob
  /\ exc = NoMsg
  /\ wpc = <<>>
  /\ snap = <<>>
  /\ ki = <<>>
  /\ attempt = <<>>
  /\ last_error = <<>>
  /\ di = <<>>
  /\ wres = <<>>
  /\ completed = <<>>
  /\ obs = 0
  /\ ncalls = 0
  /\ elog = <<>>
  /\ lastFail = NoError
  /\ all402 = TRUE
  /\ call = NoCall

SplitPayload ==
  /\ mpc = "idle"
  /\ parts' = Split(text, max_chars)
  /\ mpc' = "split"
  /\ UNCHANGED <<text, nextRes, results, response, exc>>
  /\ UNCHANGED <<workerVars, poolVars, confVars>>

NextSplit ==
  \/ SplitPayload
  \/ \E raw \in RawTexts : Speak(raw, 0)

SpecSplit == InitSplit /\ [][NextSplit]_vars
\* One fetch protocol at a time with nothing else touching the pool, on
\* pools of up to MaxSoloKeys entries over three identities.
SoloEnvVals == {<<"a">>, <<"b">>, <<"c">>}

InitSolo ==
  /\ \E env \in SeqsUpTo(SoloEnvVals, MaxSoloKeys) : keys = StartupKeys(env)
  /\ max_chars = ChunkSize
  /\ mpc = "idle"
  /\ text = <<>>
  /\ parts = <<>>
  /\ nextRes = 1
  /\ results = <<>>
  /\ response = NoJob
  /\ exc = NoMsg
  /\ wpc = <<>>
  /\ snap = <<>>
  /\ ki = <<>>
  /\ attempt = <<>>
  /\ last_error = <<>>
  /\ di = <<>>
  /\ wres = <<>>
  /\ completed = <<>>
  /\ obs = 0
  /\ ncalls = 0
  /\ elog = <<>>
  /\ lastFail = NoError
  /\ all402 = TRUE
  /\ call = NoCall

NextSolo ==
  \/ \E raw \in ShortTexts : Speak(raw, 1)
  \/ Worker(1)
  \/ Collect
  \/ Finish
  \/ Shutdown

SpecSolo == InitSolo /\ [][NextSolo]_vars

\* The KeyManager on its own: one caller invoking its methods one after the
\* other on a manager as __init__ leaves it, get_available_key included,
\* which app.py never calls.
Units == {0, 20000, 30000, 50001}
PoolIdents == {<<"a">>, <<"b">>}
KeyLists == SeqsUpTo(RawKeys, 2)

InitManager ==
  /\ keys = <<>>
  /\ max_chars = ChunkSize
  /\ mpc = "idle"
  /\ text = <<>>
  /\ parts = <<>>
  /\ nextRes = 1
  /\ results = <<>>
  /\ response = NoJob
  /\ exc = NoMsg
  /\ wpc = <<>>
  /\ snap = <<>>
  /\ ki = <<>>
  /\ attempt = <<>>
  /\ last_error = <<>>
  /\ di = <<>>
  /\ wres = <<>>
  /\ completed = <<>>
  /\ obs = 0
  /\ ncalls = 0
  /\ elog = <<>>
  /\ lastFail = NoError
  /\ all402 = TRUE
  /\ call = NoCall

LoadKeys(ks) ==
  /\ keys' = load_keys(ks)
  /\ call' = Call("load_keys", ks, <<>>)
  /\ UNCHANGED <<max_chars, jobVars, workerVars>>

PoolAdd(k) ==
  /\ Len(keys) < MaxPoolKeys
  /\ keys' = add_key(keys, k)
  /\ call' = Call("add_key", k, <<>>)
  /\ UNCHANGED <<max_chars, jobVars, workerVars>>

PoolGet(n) ==
  /\ LET r == get_available_key(keys, n)
     IN /\ keys' = r.pool
        /\ call' = Call("get_available_key", n, r.ret)
  /\ UNCHANGED <<max_chars, jobVars, workerVars>>

PoolDeactivate(k) ==
  /\ LET r == deactivate_key(keys, k)
     IN /\ keys' = r.pool
        /\ call' = Call("deactivate_key", k, r.ret)
  /\ UNCHANGED <<max_chars, jobVars, workerVars>>

PoolDelete ==
  /\ LET r == delete_first_key(keys)
     IN /\ keys' = r.pool
        /\ call' = Call("delete_first_key", <<>>, r.ret)
  /\ UNCHANGED <<max_chars, jobVars, workerVars>>

NextPool ==
  \/ \E ks \in KeyLists : LoadKeys(ks)
  \/ \E k \in RawKeys : PoolAdd(k)
  \/ \E n \in Units : PoolGet(n)
  \/ \E k \in PoolIdents : PoolDeactivate(k)
  \/ PoolDelete

SpecPool == InitManager /\ [][NextPool]_vars

\* A job of more chunks than the executor has worker threads: a text of
\* MaxWideChunks characters split one character a chunk, on a pool of one
\* credential that serves every call.  A worker thread that can take a step
\* takes one: the threads are scheduled by the operating system and every
\* requests.post returns within its timeout.
WideTexts == {Body(MaxWideChunks)}
WideResponses == {"ok"}

InitWide ==
  /\ keys = <<NewEntry(<<"a">>)>>
  /\ max_chars = 1
  /\ mpc = "idle"
  /\ text = <<>>
  /\ parts = <<>>
  /\ nextRes = 1
  /\ results = <<>>
  /\ response = NoJob
  /\ exc = NoMsg
  /\ wpc = <<>>
  /\ snap = <<>>
  /\ ki = <<>>
  /\ attempt = <<>>
  /\ last_error = <<>>
  /\ di = <<>>
  /\ wres = <<>>
  /\ completed = <<>>
  /\ obs = 0
  /\ ncalls = 0
  /\ elog = <<>>
  /\ lastFail = NoError
  /\ all402 = TRUE
  /\ call = NoCall

WideWorker(c) ==
  \/ Start(c)
  \/ \E r \in WideResponses : Post(c, r)

NextWide ==
  \/ \E raw \in WideTexts : Speak(raw, 0)
  \/ \E c \in 1..MaxWideChunks : WideWorker(c)
  \/ Collect
  \/ Finish

SpecWide ==
  /\ InitWide
  /\ [][NextWide]_vars
  /\ \A c \in 1..MaxWideChunks : WF_vars(WideWorker(c))

\* ===================================================================
\* Claims
\* ===================================================================
\* The observed protocol has started, and has ended by raising at line 83.
ObsFailed == obs \in Chunks /\ wpc[obs] = "failed"
ObsDone == obs \in Chunks /\ wpc[obs] = "done"

\* C1 - Failover exhaustion: a protocol whose snapshot holds N >= 1 entries
\* and whose every remote call answered 402 has made exactly N remote calls
\* when it fails the chunk, at most one on each snapshot entry.
C1_ExactlyNCalls ==
  /\ (ObsFailed /\ all402 /\ Len(snap[obs]) >= 1) => ncalls = Len(snap[obs])
  /\ (obs \in Chunks /\ all402) => Len(elog) <= 1

\* C2 - Quota deactivation is permanent: when the deactivate_key(C) that a
\* 402 started returns, the pool holds no entry with identity C.
C2_DeactivationPermanent ==
  [][\A c \in Chunks :
       (wpc[c] \in {"deact", "pop"} /\ wpc'[c] = "skip")
         => snap[c][ki[c]] \notin KeyIds(keys')]_vars

FailedChunks == {c \in Chunks : wpc[c] = "failed"}
DoneChunks == {c \in Chunks : wpc[c] = "done"}

\* C3 - Fail-fast job with no partial result: once a chunk of the job has
\* failed, the job never answers with audio, and the answer it gives is the
\* single error, status 500, of one failed chunk.
C3_FailFastNoPartial ==
  FailedChunks # {} =>
    /\ response.status # 200
    /\ response.audio = <<>>
    /\ mpc = "responded" =>
         /\ response.status = 500
         /\ response.message \in {wres[c] : c \in FailedChunks}

\* A job answered 500 in which chunk 1 succeeded, and was collected, and
\* chunk 2 failed.
C3_Witness ==
  /\ mpc = "responded"
  /\ response.status = 500
  /\ Len(parts) >= 2
  /\ wpc[1] = "done"
  /\ wpc[2] = "failed"
  /\ Len(results) = 1

\* C4 - Order-independence of reassembly: the audio of a job answered 200
\* is the audio of chunk 1, chunk 2, ... chunk n in that order, one result
\* per chunk, whatever the order in which the chunks completed.
C4_OrderedReassembly ==
  (mpc = "responded" /\ response.status = 200) =>
    /\ Len(results) = Len(parts)
    /\ \A c \in Chunks : results[c] = Synth(parts[c])
    /\ response.audio = Merge([c \in Chunks |-> Synth(parts[c])])
    /\ response.audio = Synth(text)

\* A job answered 200 whose second chunk completed before its first.
C4_Witness ==
  /\ mpc = "responded"
  /\ response.status = 200
  /\ completed = <<2, 1>>

\* Every call of the observed protocol on its current snapshot entry
\* answered 503, and there is at least one.
Only503 == elog # <<>> /\ \A i \in 1..Len(elog) : elog[i].resp = "503"

\* C5 - Backoff bound: a snapshot entry that answers 503 on every call is
\* called at most 3 times, the protocol leaves it only after the third call,
\* and the sleeps after those calls are 2^attempt seconds for attempt 0, 1,
\* 2, each longer than the one before.
C5_BackoffBound ==
  (obs \in Chunks /\ Only503) =>
    /\ Len(elog) <= 3
    /\ \A i \in 1..Len(elog) : elog[i].wait = (2 ^ (i - 1)) * 1000
    /\ \A i \in 1..Len(elog), j \in 1..Len(elog) :
         i < j => elog[i].wait < elog[j].wait
    /\ wpc[obs] \in {"skip", "failed"} => Len(elog) = 3
    /\ wpc[obs] = "call" => attempt[obs] = Len(elog)

\* The protocol is leaving an entry that answered 503 three times.
C5_Witness ==
  /\ obs \in Chunks
  /\ Only503
  /\ Len(elog) = 3
  /\ wpc[obs] = "skip"
  /\ ki[obs] < Len(snap[obs])

\* The error an attempt that ended with answer class r leaves behind.
ErrorOfAttempt(r) ==
  CASE r = "402" -> "402 Payment Required"
    [] r = "503" -> "503 Service Unavailable"
    [] OTHER -> ErrMsg(r)

\* C6 - Last observed error is reported: the message of a protocol that
\* fails after remote calls carries the error of its last failed call,
\* whatever the class of that call.
C6_LastErrorReported ==
  (ObsFailed /\ ncalls > 0) => wres[obs].last = ErrorOfAttempt(lastFail)

\* The identities of a snapshot are pairwise distinct.
Distinct(sn) == \A i \in 1..Len(sn), j \in 1..Len(sn) : sn[i] = sn[j] => i = j

\* A one-chunk job was answered 200 after exactly two remote calls: a 402
\* from the first snapshot entry and a success of the second, on a snapshot
\* of at least two distinct identities.  With nothing else touching the
\* pool, the snapshot is the pool as it was when the job was submitted.
ScenarioC ==
  /\ mpc = "responded"
  /\ response.status = 200
  /\ Len(parts) = 1
  /\ obs = 1
  /\ Len(snap[1]) >= 2
  /\ Distinct(snap[1])
  /\ ki[1] = 2
  /\ ncalls = 2
  /\ lastFail = "402"

\* C7 - Scenario C: after such a job the first credential is gone from the
\* pool, the others are all there in their original order with usage 0, and
\* count() is one less than before the job.
C7_ScenarioC ==
  ScenarioC =>
    /\ snap[1][1] \notin KeyIds(keys)
    /\ count(keys) = Len(snap[1]) - 1
    /\ keys = [i \in 1..(Len(snap[1]) - 1) |->
                 [key |-> snap[1][i + 1], used |-> 0]]

\* Scenario C on a pool of three credentials.
C7_Witness == ScenarioC /\ Len(snap[1]) = 3

\* The /speak thread is not inside a request: only then can one arrive.
BetweenRequests == mpc \in {"idle", "responded"}

\* A /speak request is being handled in this step.
SpeakStep(raw) == \E o \in {0, 1} : Speak(raw, o)

\* No entry of the pool has used < quota.
NoneUsable == \A i \in 1..Len(keys) : keys[i].used >= LIMIT

\* The step answers with the given status at once: no chunk is submitted,
\* so no remote call can follow, and the pool is as it was.
RejectedWith(st) ==
  /\ mpc' = "responded"
  /\ response'.status = st
  /\ response'.audio = <<>>
  /\ wpc' = <<>>
  /\ parts' = <<>>
  /\ ncalls' = 0
  /\ keys' = keys

\* C8 - NoUsableCredentials: a request submitted while no credential of the
\* pool has used < quota is answered 403 in that step, with no chunk
\* dispatched, no remote call and the pool unchanged.
C8_NoUsableCredentials ==
  [][(BetweenRequests /\ NoneUsable) =>
       \A raw \in RawTexts : SpeakStep(raw) => RejectedWith(403)]_vars

\* A request that carries text was answered 403 by an empty pool.
C8_Witness ==
  /\ mpc = "responded"
  /\ response.status = 403
  /\ keys = <<>>
  /\ text # <<>>

\* Concatenation of a sequence of sequences, in index order.
RECURSIVE Concat(_)
Concat(ss) == IF ss = <<>> THEN <<>> ELSE Head(ss) \o Concat(Tail(ss))

CeilDiv(a, b) == (a + b - 1) \div b

\* C9 - Partition correctness: a non-empty payload split at size S >= 1
\* gives ceil(len/S) chunks, at least one, each of 1..S characters and all
\* but the last of exactly S, whose concatenation in index order is the
\* payload.
C9_Partition ==
  (mpc \in {"split", "map"} /\ text # <<>>) =>
    /\ Len(parts) = CeilDiv(Len(text), max_chars)
    /\ Len(parts) >= 1
    /\ \A j \in 1..Len(parts) :
         /\ Len(parts[j]) >= 1
         /\ Len(parts[j]) <= max_chars
         /\ j < Len(parts) => Len(parts[j]) = max_chars
    /\ Concat(parts) = text

\* A payload was split into several chunks, the last one short.
C9_Witness ==
  /\ mpc = "split"
  /\ Len(parts) >= 3
  /\ Len(parts[Len(parts)]) < max_chars

\* The text is empty once trimmed.
Blank(raw) == \A i \in 1..Len(raw) : raw[i] = " "

\* C10 as stated - EmptyInput: in every pool state a request whose text is
\* empty after trimming is answered 400 at once, with no remote call and
\* the pool unchanged.
C10_EmptyInputAlways400 ==
  [][BetweenRequests =>
       \A raw \in RawTexts :
         (Blank(raw) /\ SpeakStep(raw)) => RejectedWith(400)]_vars

\* C10 as amended - a request whose text is empty after trimming is answered
\* at once, with no remote call and the pool unchanged: 400 when the pool
\* holds a credential with used < quota, and 403 when it holds none, the
\* pool being tested first.
C10_EmptyInput ==
  [][BetweenRequests =>
       \A raw \in RawTexts :
         (Blank(raw) /\ SpeakStep(raw)) =>
           RejectedWith(IF NoneUsable THEN 403 ELSE 400)]_vars

\* A request of blanks only was answered 400.
C10_Witness ==
  /\ mpc = "responded"
  /\ response.status = 400
  /\ text = <<>>
  /\ keys # <<>>

\* The identity deactivate_key was called with by the protocol of chunk c.
BadKey(c) == snap[c][ki[c]]

\* The protocol of chunk c is past the match test of deactivate_key and
\* executes its pop in this step.
PopStep(c) == c \in Chunks /\ wpc[c] = "pop" /\ wpc'[c] # "pop"

\* C11 - Concurrent deactivation is safe: under every interleaving with the
\* other callers of the pool, the removal of deactivate_key(C) never fails
\* out of range, removes exactly one entry, and that entry has identity C.
C11_DeactivationSafe ==
  [][\A c \in 1..MaxChunks :
       PopStep(c) =>
         /\ wpc'[c] = "skip"
         /\ \E i \in 1..Len(keys) :
              /\ keys[i].key = BadKey(c)
              /\ keys' = RemoveAt(keys, i)]_vars

\* C12 - Fixed call budget: whatever the remote answers, the observed
\* protocol makes at most 3 calls on each snapshot entry and at most 3 * N
\* on a snapshot of N entries, every call that does not succeed using up one
\* of the 3 attempts of its entry; a success is its last call and ends it,
\* and it fails only when it is past the last snapshot entry.
C12_CallBudget ==
  obs \in Chunks /\ wpc[obs] # "queued" =>
    LET n == Len(snap[obs])
    IN /\ Len(elog) <= ATTEMPTS
       /\ ncalls <= ATTEMPTS * n
       /\ ki[obs] >= 1 => ncalls <= ATTEMPTS * (ki[obs] - 1) + Len(elog)
       /\ wpc[obs] = "call" => attempt[obs] = Len(elog)
       /\ \A i \in 1..Len(elog) :
            elog[i].resp = "ok" => (i = Len(elog) /\ wpc[obs] = "done")
       /\ wpc[obs] = "done" =>
            (elog # <<>> /\ elog[Len(elog)].resp = "ok")
       /\ wpc[obs] = "failed" => ki[obs] = n

\* The protocol failed on a snapshot of two entries after the full budget
\* of six calls, among them 503 answers and errors.
C12_Witness ==
  /\ ObsFailed
  /\ Len(snap[obs]) = 2
  /\ ncalls = 6
  /\ \E i \in 1..Len(elog) : elog[i].resp = "503"
  /\ \E i \in 1..Len(elog) : elog[i].resp = "error"

\* The identities of a pool, in pool order.
IdentsOf(pool) == [i \in 1..Len(pool) |-> pool[i].key]

\* C13 - Stable snapshot order: a protocol takes its snapshot when it
\* starts, as the identities of the pool in pool order, and begins at its
\* first entry; from then on, whatever happens to the pool, the snapshot
\* stays as taken and the entry being tried stays or moves to the next one,
\* never back and never past the end.
C13_StableSnapshot ==
  [][\A c \in 1..MaxChunks :
       /\ (c \in Chunks /\ wpc[c] = "queued" /\ wpc'[c] \in Running) =>
            /\ snap'[c] = IdentsOf(keys)
            /\ ki'[c] = 1
       /\ (c \in Chunks /\ wpc[c] \in Running) =>
            /\ snap'[c] = snap[c]
            /\ ki'[c] \in {ki[c], ki[c] + 1}
            /\ ki'[c] <= Len(snap[c])
            /\ ki'[c] = ki[c] + 1 => wpc[c] = "skip"]_vars

\* The protocol is calling the second entry of its snapshot while the pool
\* holds the same identities in the opposite order.
C13_Witness ==
  /\ obs \in Chunks
  /\ wpc[obs] = "call"
  /\ Len(snap[obs]) = 2
  /\ ki[obs] = 2
  /\ Len(keys) = 2
  /\ IdentsOf(keys) = <<snap[obs][2], snap[obs][1]>>
  /\ snap[obs][1] # snap[obs][2]

\* The step is one of an administrative request: it touches nothing of the
\* job and of its protocols.
AdminStep == UNCHANGED <<jobVars, workerVars>>

\* C14 - Pool frame condition during dispatch: a step of a chunk protocol
\* that changes the pool is the removal, by the deactivate_key a 402 started,
\* of one entry that has the identity of the credential that answered 402,
\* the other entries keeping their order and usage; every other step of a
\* protocol or of the job leaves the pool as it is.
C14_PoolFrame ==
  [][(keys' # keys /\ ~AdminStep) =>
       \E c \in Chunks :
         /\ wpc[c] = "pop"
         /\ wpc'[c] = "skip"
         /\ \E i \in 1..Len(keys) :
              /\ keys[i].key = BadKey(c)
              /\ keys' = RemoveAt(keys, i)]_vars

\* C15 - Advisory capacity predicate: through start-up, /add_key,
\* /delete_key, jobs, their protocols and deactivations, every credential
\* of the pool has used = 0, so active_keys_left() is true exactly when
\* count() > 0.
C15_UsedStaysZero ==
  /\ \A i \in 1..Len(keys) : keys[i].used = 0
  /\ active_keys_left(keys) <=> count(keys) > 0

\* A job was answered 200 after one credential was called, answered 402 and
\* was deactivated and another one served the chunk, and the pool still
\* holds a credential.
C15_Witness ==
  /\ mpc = "responded"
  /\ response.status = 200
  /\ obs \in Chunks
  /\ ncalls >= 2
  /\ lastFail = "402"
  /\ count(keys) > 0
  /\ active_keys_left(keys)

\* The protocol of chunk c has started and its snapshot was empty.
EmptySnapshot(c) ==
  c \in Chunks /\ wpc[c] \notin {"queued", "cancelled"} /\ snap[c] = <<>>

\* C16 - Mid-flight exhaustion: a protocol of an admitted job that starts
\* when the pool has been emptied takes an empty snapshot and fails its
\* chunk in that same step, with the message of a protocol no API answered;
\* it never enters the loops, so it makes no remote call, and its job is
\* answered with an error and never with audio.
C16_MidFlightExhaustion ==
  /\ [][\A c \in 1..MaxChunks :
          (/\ c \in Chunks
           /\ wpc[c] = "queued"
           /\ wpc'[c] \notin {"queued", "cancelled"}
           /\ keys = <<>>) =>
            /\ snap'[c] = <<>>
            /\ wpc'[c] = "failed"
            /\ wres'[c] = FailMsg(c, NoError)]_vars
  /\ [](\A c \in 1..MaxChunks :
          EmptySnapshot(c) =>
            /\ wpc[c] = "failed"
            /\ ki[c] = 0
            /\ attempt[c] = 0
            /\ last_error[c] = NoError
            /\ wres[c].last = "No API responded"
            /\ response.status # 200
            /\ mpc = "responded" => response.status = 500)

\* A job was admitted with a credential in the pool, its first protocol
\* took a snapshot of it and deactivated it, its second protocol started on
\* the emptied pool, and the job was answered 500.
C16_Witness ==
  /\ mpc = "responded"
  /\ response.status = 500
  /\ Len(parts) = 2
  /\ snap[1] # <<>>
  /\ EmptySnapshot(2)
  /\ keys = <<>>

\* The lowest index among the failed chunks of the job.
FirstFailed == CHOOSE c \in FailedChunks : \A d \in FailedChunks : c <= d

\* C20 - Deterministic job failure: the message of a failed chunk carries
\* the chunk's position counted from one, and a job in which chunks failed
\* is answered with the message of the failed chunk of lowest index,
\* whichever chunk failed first in time.
C20_LowestIndexError ==
  /\ \A c \in FailedChunks : wres[c].chunk = c
  /\ (mpc \in {"shutdown", "responded"} /\ FailedChunks # {}) =>
       /\ exc = wres[FirstFailed]
       /\ exc.chunk = FirstFailed
       /\ mpc = "responded" => response = Answer(500, wres[FirstFailed], <<>>)

\* Both chunks of a job failed, the second one first in time, and the job
\* was answered with the message of the first.
C20_Witness ==
  /\ mpc = "responded"
  /\ completed = <<2, 1>>
  /\ FailedChunks = {1, 2}
  /\ response.message.chunk = 1
  /\ wres[2].chunk = 2

\* The entries of a pool that can take n more units.
Fits(pool, n) == {i \in 1..Len(pool) : pool[i].used + n <= LIMIT}

\* C17 - Quota accounting of the allocation operation: through load_keys,
\* add_key, get_available_key with non-negative units, deactivate_key and
\* delete_first_key every credential has 0 <= used <= quota; a call
\* get_available_key(n) returns the key of the first entry in pool order
\* with used + n <= quota and adds exactly n to that entry's used and to no
\* other, and returns None and changes nothing when no entry fits.
C17_QuotaAccounting ==
  /\ [](\A i \in 1..Len(keys) : keys[i].used >= 0 /\ keys[i].used <= LIMIT)
  /\ [][call'.op = "get_available_key" =>
          LET n == call'.arg
              fits == Fits(keys, n)
          IN IF fits = {}
             THEN /\ call'.ret = <<>>
                  /\ keys' = keys
             ELSE LET f == CHOOSE i \in fits : \A j \in fits : i <= j
                  IN /\ call'.ret = <<keys[f].key>>
                     /\ Len(keys') = Len(keys)
                     /\ keys'[f] = [key |-> keys[f].key,
                                    used |-> keys[f].used + n]
                     /\ \A j \in 1..Len(keys) : j # f => keys'[j] = keys[j]]_vars

\* An allocation passed over a first credential that could not take the
\* units and charged the second, and the first is now at its quota.
C17_Witness ==
  /\ call.op = "get_available_key"
  /\ call.arg = 20000
  /\ Len(keys) >= 2
  /\ keys[1].used = LIMIT
  /\ keys[2].used = 20000
  /\ call.ret = <<keys[2].key>>

\* The entries of a list of values that load_keys keeps, trimmed.
RECURSIVE Kept(_)
Kept(ks) ==
  IF ks = <<>> THEN <<>>
  ELSE IF Blank(Head(ks)) THEN Kept(Tail(ks))
       ELSE <<[key |-> Strip(Head(ks)), used |-> 0]>> \o Kept(Tail(ks))

\* The places of a pool that hold identity k.
Matches(pool, k) == {i \in 1..Len(pool) : pool[i].key = k}

\* C19 - The pool is an insertion-ordered sequence: add_key appends one
\* entry with used = 0 at the tail and does nothing for a value that is
\* empty once trimmed; deactivate_key removes the first entry with the
\* identity and nothing else; delete_first_key removes the head and does
\* nothing on an empty pool; load_keys replaces the pool with fresh entries
\* of used = 0; so the surviving entries always keep the order in which
\* they were added.
C19_InsertionOrdered ==
  [][/\ call'.op = "add_key" =>
          keys' = IF Blank(call'.arg) THEN keys
                  ELSE Append(keys, [key |-> Strip(call'.arg), used |-> 0])
     /\ call'.op = "deactivate_key" =>
          LET m == Matches(keys, call'.arg)
          IN IF m = {}
             THEN keys' = keys /\ call'.ret = <<>>
             ELSE LET f == CHOOSE i \in m : \A j \in m : i <= j
                  IN /\ keys' = SubSeq(keys, 1, f - 1)
                                  \o SubSeq(keys, f + 1, Len(keys))
                     /\ call'.ret = <<keys[f]>>
     /\ call'.op = "delete_first_key" =>
          IF keys = <<>>
          THEN keys' = keys /\ call'.ret = <<>>
          ELSE /\ keys' = [i \in 1..(Len(keys) - 1) |-> keys[i + 1]]
               /\ call'.ret = <<keys[1]>>
     /\ call'.op = "load_keys" => keys' = Kept(call'.arg)
     /\ call'.op = "get_available_key" => IdentsOf(keys') = IdentsOf(keys)]_vars

\* deactivate_key removed the first of two entries of one identity, which an
\* allocation had charged, and the untouched later one is still behind the
\* entry that was between them.
C19_Witness ==
  /\ call.op = "deactivate_key"
  /\ call.arg = <<"a">>
  /\ call.ret = <<[key |-> <<"a">>, used |-> 20000]>>
  /\ keys = <<[key |-> <<"b">>, used |-> 0], [key |-> <<"a">>, used |-> 0]>>

\* The chunks of the job whose protocol is in flight.
InFlight == {c \in Chunks : wpc[c] \in Running}

\* C18 - Bounded parallelism: at every moment at most 5 protocols of the
\* job are in flight, and a job being served reaches a moment at which the
\* protocol of every one of its chunks has been started and has completed,
\* unless a chunk of the job fails.
C18_BoundedParallelism ==
  /\ [](Cardinality(InFlight) <= MAX_WORKERS)
  /\ (mpc = "map") ~> (DoneChunks = Chunks \/ FailedChunks # {})

\* Five protocols are in flight and a sixth chunk waits in the queue.
C18_Witness ==
  /\ Cardinality(InFlight) = MAX_WORKERS
  /\ \E c \in Chunks : wpc[c] = "queued"

====
